---- MODULE Spec2Model ----
(***************************************************************************)
(* A model of pkg/controller/util.go of tikv-operator:                     *)
(*   - GuaranteedUpdate: the bounded-retry read / mutate / compare / write *)
(*     cycle against a versioned object store (specification Spec);        *)
(*   - WatchForObject and WatchForController: the two event routers that   *)
(*     feed a deduplicating work queue (specification RouterSpec), and the *)
(*     routers in front of the queue's consumers (QueueSpec);              *)
(*   - RequeueError and IgnoreError: the error classifier (ErrSpec).       *)
(***************************************************************************)
EXTENDS Naturals, Sequences, FiniteSets, TLC

VARIABLES
  store,      \* the object held by the remote store: [rv, data, ann]
  gu,         \* per invocation of GuaranteedUpdate: pc, obj, before, steps, err,
              \* and the last call it made with what that call returned (at, ret)
  cnt,        \* per invocation: calls made so far (fetches, mutates, writes, ...)
  acc,        \* per invocation: the store before and after its accepted write
  kind,       \* per invocation: what its updateFunc does
  writer,     \* the writes the other writer may still make
  client,     \* how the client.Client at hand fills obj in Get: "replace" or "decode"
  mode,       \* router: "object" (WatchForObject) or "controller" (WatchForController)
  m,          \* router: the label filter handed to WatchForController
  lister,     \* router: what the lookup function fn returns
  queue,      \* work queue: keys waiting, in order
  dirty,      \* work queue: keys that need processing
  processing, \* work queue: keys handed to a consumer and not yet Done
  added,      \* per key: the calls of q.Add since the key was last handed to a
              \* consumer, counted up to MaxAdds
  ev,         \* router: the last event delivered and what its handler did
  cls         \* error classifier: the last error built and what was asked of it

uvars == <<store, gu, cnt, acc, kind, writer, client>>
rvars == <<mode, m, lister, queue, dirty, processing, added, ev>>
evars == <<cls>>
vars ==
  <<store, gu, cnt, acc, kind, writer, client, mode, m, lister, queue, dirty, processing, added, ev,
    cls>>

(***************************************************************************)
(* Bounds of the model and constants of the program.                       *)
(***************************************************************************)
\* Writes the other writer makes beside one invocation (Spec).
MaxWriterWrites == 5

\* Writes the other writer makes beside two concurrent invocations (ConcSpec).
MaxConcWrites == 2

\* Conflict-class errors that cli.Get and updateFunc return in one behaviour.
MaxSoft == 1

\* Calls of q.Add counted for one key while it waits in the queue.
MaxAdds == 2

\* retry.DefaultRetry.Steps: the closure runs at most this many times.
Steps == 5

\* The invocations of GuaranteedUpdate that run concurrently on one object.
Procs == {"p1", "p2"}

\* The fields of the object: one per invocation, one for the other writer.
Fields == Procs \cup {"w"}

(***************************************************************************)
(* Errors: where the error came from and its class. errors.IsConflict      *)
(* looks at the class only.                                                *)
(***************************************************************************)
Nil == [src |-> "none", class |-> "nil"]

Err(src, class) == [src |-> src, class |-> class]

IsConflict(e) == e.class = "conflict"

\* What cli.Get can fail with.
GetErrors == {Err("get", "notfound"), Err("get", "conflict"), Err("get", "other")}

\* What updateFunc can fail with.
FnErrors == {Err("fn", "conflict"), Err("fn", "other")}

(***************************************************************************)
(* Objects. ann is a Go map: nil, or a set of keys (possibly empty).       *)
(***************************************************************************)
NilMap == [isNil |-> TRUE, keys |-> {}]

EmptyMap == [isNil |-> FALSE, keys |-> {}]

InitialObject ==
  [rv |-> 1, data |-> [f \in Fields |-> 0], ann |-> NilMap]

\* The caller's object before the call: never fetched, possibly edited locally.
LocalObject(p, edited) ==
  [rv |-> 0, data |-> [f \in Fields |-> IF f = p /\ edited THEN 1 ELSE 0], ann |-> NilMap]

\* updateFunc, by kind, applied in place to the caller's object.
MutateFn(p, k, o) ==
  CASE k = "noop" -> o
    [] k = "set" -> [o EXCEPT !.data[p] = 1]
    [] k = "initmap" -> [o EXCEPT !.ann = IF @.isNil THEN EmptyMap ELSE @]
    [] k = "annotate" -> [o EXCEPT !.ann = [isNil |-> FALSE, keys |-> @.keys \cup {p}]]

Kinds == {"noop", "set", "initmap", "annotate"}

\* One invocation alone: the other one is never called.
KindsAlone == {k \in [Procs -> Kinds \cup {"absent"}] : k["p1"] \in Kinds /\ k["p2"] = "absent"}

\* Two invocations run against each other: any kind beside a "set".
KindPairs == {k \in [Procs -> Kinds] : k["p2"] = "set"}

\* Mutant: maps are compared as reflect.DeepEqual does, nil apart from empty.
StrictMapEqual(a, b) == a = b

\* apiequality.Semantic.DeepEqual on maps: a nil map and an empty map are equal.
MapDeepEqual(a, b) ==
  /\ (a.isNil \/ a.keys = {}) = (b.isNil \/ b.keys = {})
  /\ a.keys = b.keys

\* Mutant: the snapshot aliases the object, so the two always compare equal.
AliasedDeepEqual(a, b) == TRUE

\* apiequality.Semantic.DeepEqual(obj, beforeMutation).
SemanticDeepEqual(a, b) ==
  /\ a.rv = b.rv
  /\ a.data = b.data
  /\ MapDeepEqual(a.ann, b.ann)

(***************************************************************************)
(* The store: cli.Update is accepted only on the current version.          *)
(***************************************************************************)
VersionMatches(o) == o.rv = store.rv

\* The object the store holds after accepting o.
Stored(o) == [o EXCEPT !.rv = store.rv + 1]

(***************************************************************************)
(* retry.RetryOnConflict(retry.DefaultRetry, fn): what follows one run of  *)
(* the closure that returned e, with s steps left.                         *)
(***************************************************************************)
\* Mutant: the retry is not bounded by the steps left.
RetriesUnbounded(e, s) == IsConflict(e)

\* Mutant: every error is retried, not only a conflict.
RetriesAnyError(e, s) == e # Nil /\ s > 1

Retries(e, s) == IsConflict(e) /\ s > 1

\* Mutant: a conflict is taken for success.
AfterAttemptSwallow(g, at, e) ==
  [g EXCEPT !.pc = "done", !.err = IF IsConflict(e) THEN Nil ELSE e, !.at = at, !.ret = e]

\* Mutant: a retry runs updateFunc again on the stale object, without a fetch.
AfterAttemptNoFetch(g, at, e) ==
  IF Retries(e, g.steps)
    THEN [g EXCEPT !.pc = "mutate", !.steps = @ - 1, !.at = at, !.ret = e]
    ELSE [g EXCEPT !.pc = "done", !.err = e, !.at = at, !.ret = e]

\* at and ret keep the last call made (key, get, fn, update) and what it returned.
AfterAttempt(g, at, e) ==
  IF Retries(e, g.steps)
    THEN [g EXCEPT !.pc = "fetch", !.steps = @ - 1, !.at = at, !.ret = e]
    ELSE [g EXCEPT !.pc = "done", !.err = e, !.at = at, !.ret = e]

\* Calls made so far (fetches, mutates, writes), write conflicts met (wconf),
\* conflict-class errors from Get or updateFunc (soft), the version the first
\* fetch returned (rv1), the calls of the current run of the closure (cyc), and
\* whether the caller had edited its object before the call (edited).
NoCount ==
  [fetches |-> 0, mutates |-> 0, writes |-> 0, wconf |-> 0, soft |-> 0, rv1 |-> 0,
   cyc |-> [f |-> 0, m |-> 0, w |-> 0], edited |-> FALSE]

NoAcc == [set |-> FALSE, base |-> InitialObject, result |-> InitialObject]

\* Whether the model lets one more conflict-class error come from Get or updateFunc.
SoftLeft == cnt["p1"].soft + cnt["p2"].soft < MaxSoft

SoftOf(e) == IF IsConflict(e) THEN 1 ELSE 0

(***************************************************************************)
(* GuaranteedUpdate, step by step.                                         *)
(***************************************************************************)
\* client.ObjectKeyFromObject(obj), then the first run of the closure. The
\* caller's object may carry local edits.
Call(p) ==
  /\ gu[p].pc = "idle"
  /\ kind[p] # "absent"
  /\ \E keyOK \in BOOLEAN, edited \in BOOLEAN :
       LET g == [gu[p] EXCEPT !.obj = LocalObject(p, edited)] IN
         /\ IF keyOK
              THEN gu' = [gu EXCEPT ![p] = [g EXCEPT !.pc = "fetch", !.steps = Steps,
                                                      !.at = "key", !.ret = Nil]]
              ELSE gu' = [gu EXCEPT ![p] = [g EXCEPT !.pc = "done", !.at = "key",
                                                      !.err = Err("key", "other"),
                                                      !.ret = Err("key", "other")]]
         /\ cnt' = [cnt EXCEPT ![p].edited = edited]
  /\ UNCHANGED <<store, acc, kind, writer, client, rvars, evars>>

\* The implementations of client.Client the caller may pass as cli. A cached
\* client copies the stored object over obj. A client that reads from the API
\* server decodes the response into obj as it is: what the response carries
\* replaces the local value, a field the response omits (a zero value) keeps
\* its local value, and the entries of a map are added to the local map.
Clients == {"replace", "decode"}

\* obj after cli.Get of a client that copies the stored object over it.
Replaced(local) == store

\* obj after cli.Get of a client that decodes the response into it.
DecodedInto(local) ==
  [store EXCEPT
     !.data = [f \in Fields |-> IF f \in Procs /\ @[f] = 0 THEN local.data[f] ELSE @[f]],
     !.ann = IF @.isNil THEN local.ann
             ELSE [isNil |-> FALSE, keys |-> @.keys \cup local.ann.keys]]

\* A successful cli.Get(ctx, key, obj) fills the caller's obj, which the closure
\* passes as it is, and beforeMutation := obj.DeepCopyObject() snapshots it.
Fetched(g) ==
  LET o == IF client = "replace" THEN Replaced(g.obj) ELSE DecodedInto(g.obj)
  IN  [g EXCEPT !.obj = o, !.before = o, !.pc = "mutate", !.at = "get", !.ret = Nil]

Fetch(p) ==
  /\ gu[p].pc = "fetch"
  /\ \/ /\ gu' = [gu EXCEPT ![p] = Fetched(@)]
        /\ cnt' = [cnt EXCEPT ![p].fetches = @ + 1,
                              ![p].rv1 = IF @ = 0 THEN store.rv ELSE @,
                              ![p].cyc = [f |-> 1, m |-> 0, w |-> 0]]
     \/ \E e \in GetErrors :
          /\ IsConflict(e) => SoftLeft
          /\ gu' = [gu EXCEPT ![p] = AfterAttempt(@, "get", e)]
          /\ cnt' = [cnt EXCEPT ![p].fetches = @ + 1, ![p].soft = @ + SoftOf(e),
                                ![p].cyc = [f |-> 1, m |-> 0, w |-> 0]]
  /\ UNCHANGED <<store, acc, kind, writer, client, rvars, evars>>

\* Mutant: the write is issued whatever the comparison says.
AfterMutationAlwaysWrite(g) == [g EXCEPT !.pc = "write", !.at = "fn", !.ret = Nil]

\* The closure after updateFunc returned nil: skip the write when nothing changed.
AfterMutation(g) ==
  IF SemanticDeepEqual(g.obj, g.before)
    THEN AfterAttempt(g, "fn", Nil)
    ELSE [g EXCEPT !.pc = "write", !.at = "fn", !.ret = Nil]

\* updateFunc() and the comparison with the snapshot.
Mutate(p) ==
  /\ gu[p].pc = "mutate"
  /\ LET g == [gu[p] EXCEPT !.obj = MutateFn(p, kind[p], @)] IN
       \/ /\ gu' = [gu EXCEPT ![p] = AfterMutation(g)]
          /\ cnt' = [cnt EXCEPT ![p].mutates = @ + 1, ![p].cyc.m = @ + 1]
       \/ \E e \in FnErrors :
            /\ IsConflict(e) => SoftLeft
            /\ gu' = [gu EXCEPT ![p] = AfterAttempt(g, "fn", e)]
            /\ cnt' = [cnt EXCEPT ![p].mutates = @ + 1, ![p].cyc.m = @ + 1,
                                  ![p].soft = @ + SoftOf(e)]
  /\ UNCHANGED <<store, acc, kind, writer, client, rvars, evars>>

\* cli.Update(ctx, obj): accepted on the current version, a conflict on a
\* superseded one; any call can also fail for another reason.
Write(p) ==
  /\ gu[p].pc = "write"
  /\ \/ /\ VersionMatches(gu[p].obj)
        /\ store' = Stored(gu[p].obj)
        /\ gu' = [gu EXCEPT ![p] = AfterAttempt([@ EXCEPT !.obj = store'], "update", Nil)]
        /\ cnt' = [cnt EXCEPT ![p].writes = @ + 1, ![p].cyc.w = @ + 1]
        /\ acc' = [acc EXCEPT ![p] = [set |-> TRUE, base |-> store, result |-> store']]
     \/ /\ ~VersionMatches(gu[p].obj)
        /\ gu' = [gu EXCEPT ![p] = AfterAttempt(@, "update", Err("update", "conflict"))]
        /\ cnt' = [cnt EXCEPT ![p].writes = @ + 1, ![p].cyc.w = @ + 1, ![p].wconf = @ + 1]
        /\ UNCHANGED <<store, acc>>
     \/ /\ gu' = [gu EXCEPT ![p] = AfterAttempt(@, "update", Err("update", "other"))]
        /\ cnt' = [cnt EXCEPT ![p].writes = @ + 1, ![p].cyc.w = @ + 1]
        /\ UNCHANGED <<store, acc>>
  /\ UNCHANGED <<kind, writer, client, rvars, evars>>

(***************************************************************************)
(* Another writer of the same object (another replica, an operator): it    *)
(* reads the current version, changes its own field and writes it back     *)
(* under the same version check.                                           *)
(***************************************************************************)
WriterWrite ==
  /\ writer > 0
  /\ LET o == [store EXCEPT !.data["w"] = @ + 1] IN
       /\ VersionMatches(o)
       /\ store' = Stored(o)
  /\ writer' = writer - 1
  /\ UNCHANGED <<gu, cnt, acc, kind, client, rvars, evars>>

(***************************************************************************)
(* Event payloads. A label map is a Go map: nil, or a set of key/value      *)
(* pairs. An apiVersion is kept as its segments between "/" characters.     *)
(***************************************************************************)
NoLabels == [isNil |-> TRUE, kv |-> {}]

Labels(S) == [isNil |-> FALSE, kv |-> S]

LabelMaps ==
  {NoLabels, Labels({<<"app", "tikv">>}), Labels({<<"app", "tikv">>, <<"tier", "db">>}),
   Labels({<<"app", "pd">>}), Labels({<<"tier", "db">>})}

\* The filters WatchForController is given: nil, empty, one pair, two pairs.
Filters ==
  {NoLabels, Labels({}), Labels({<<"app", "tikv">>}),
   Labels({<<"app", "tikv">>, <<"tier", "db">>})}

Ref(kd, gv, nm, ctl) == [kind |-> kd, apiVersion |-> gv, name |-> nm, controller |-> ctl]

\* controller.GetOwnerRef: the reference to the TikvCluster that controls a child.
OwnerRef(nm) == Ref("TikvCluster", <<"tikv.org", "v1alpha1">>, nm, TRUE)

\* The owner references a child carries.
RefLists ==
  {<<>>,
   <<OwnerRef("p")>>,
   <<Ref("ConfigMap", <<"v1">>, "c", FALSE)>>,
   <<Ref("ConfigMap", <<"v1">>, "c", FALSE), OwnerRef("p")>>,
   <<Ref("TikvCluster", <<"tikv.org", "v1", "x">>, "p", TRUE)>>,
   <<Ref("StatefulSet", <<"apps", "v1">>, "p", TRUE)>>}

Object(ns, nm, l, refs) ==
  [kind |-> "object", ns |-> ns, name |-> nm, labels |-> l, refs |-> refs, key |-> ""]

\* The objects the informer reports: one identity with every label map, with
\* every reference list, with labels and references both unusual; a child named
\* like its controller; a cluster-scoped child.
Children ==
  {Object("ns1", "a", l, <<OwnerRef("p")>>) : l \in LabelMaps}
    \cup {Object("ns1", "a", Labels({<<"app", "tikv">>}), r) : r \in RefLists}
    \cup {Object("ns1", "a", Labels({<<"app", "pd">>}), <<>>),
          Object("ns1", "a", NoLabels, <<Ref("StatefulSet", <<"apps", "v1">>, "p", TRUE)>>),
          Object("ns1", "p", Labels({<<"app", "tikv">>, <<"tier", "db">>}), <<OwnerRef("p")>>),
          Object("", "a", Labels({<<"app", "tikv">>}), <<OwnerRef("p")>>)}

\* Mutant: the key also tells whether the object has owner references.
OwnedKey(o) ==
  (IF o.ns # "" THEN o.ns \o "/" \o o.name ELSE o.name) \o (IF o.refs = <<>> THEN "" ELSE "+")

\* cache.MetaNamespaceKeyFunc on an object with metadata.
MetaNamespaceKey(o) == IF o.ns # "" THEN o.ns \o "/" \o o.name ELSE o.name

\* cache.DeletedFinalStateUnknown{Key, Obj}: the informer keeps the key under
\* which it held the object.
Tombstone(o) == [o EXCEPT !.kind = "tombstone", !.key = MetaNamespaceKey(o)]

\* A payload that is neither an object with metadata nor a tombstone.
NoMeta ==
  [kind |-> "nometa", ns |-> "", name |-> "", labels |-> NoLabels, refs |-> <<>>, key |-> ""]

\* What a delete event can carry.
DeletePayloads == Children \cup {Tombstone(o) : o \in Children} \cup {NoMeta}

\* What an add or update event can carry.
LivePayloads == Children \cup {NoMeta}

\* The old objects of update events.
OldPayloads ==
  {Object("ns1", "a", NoLabels, <<>>),
   Object("ns1", "b", Labels({<<"app", "tikv">>}), <<OwnerRef("q")>>)}

(***************************************************************************)
(* The lookup function fn(ns, name) of WatchForController: what it returns  *)
(* for the controllers the children name.                                   *)
(***************************************************************************)
Found(kd, grp, meta) == [err |-> "nil", kind |-> kd, group |-> grp, hasMeta |-> meta]

Lookups ==
  {[err |-> "notfound", kind |-> "", group |-> "", hasMeta |-> FALSE],
   [err |-> "other", kind |-> "", group |-> "", hasMeta |-> FALSE],
   Found("TikvCluster", "tikv.org", TRUE), Found("TikvCluster", "tikv.org", FALSE),
   Found("TikvCluster", "apps", TRUE), Found("StatefulSet", "tikv.org", TRUE),
   Found("StatefulSet", "apps", TRUE), Found("", "", TRUE)}

\* The object fn returns: the one of that namespace and name.
ControllerObj(resp, ns, nm) ==
  [kind |-> IF resp.hasMeta THEN "object" ELSE "nometa", ns |-> ns, name |-> nm,
   labels |-> NoLabels, refs |-> <<>>, key |-> ""]

(***************************************************************************)
(* Key derivation, filtering and owner resolution.                         *)
(***************************************************************************)
\* Mutant: the key is derived without the tombstone case.
MetaOnlyKey(o) ==
  IF o.kind = "object"
    THEN [ok |-> TRUE, key |-> MetaNamespaceKey(o)]
    ELSE [ok |-> FALSE, key |-> ""]

\* cache.DeletionHandlingMetaNamespaceKeyFunc.
DeletionHandlingKey(o) ==
  CASE o.kind = "tombstone" -> [ok |-> TRUE, key |-> o.key]
    [] o.kind = "object" -> [ok |-> TRUE, key |-> MetaNamespaceKey(o)]
    [] OTHER -> [ok |-> FALSE, key |-> ""]

\* util.IsSubMapOf(first, second): every pair of first is a pair of second.
IsSubMapOf(first, second) == first.kv \subseteq second.kv

\* Mutant: the filter is not applied.
FilterIgnored(filter, o) == TRUE

\* if m != nil { if !util.IsSubMapOf(m, meta.GetLabels()) { return } }
FilterPasses(filter, o) == filter.isNil \/ IsSubMapOf(filter, o.labels)

NoRef == Ref("", <<>>, "", FALSE)

\* metav1.GetControllerOf: the first reference flagged as controller.
GetControllerOf(o) ==
  LET idx == {i \in 1..Len(o.refs) : o.refs[i].controller} IN
    IF idx = {} THEN NoRef
    ELSE o.refs[CHOOSE i \in idx : \A k \in idx : i <= k]

\* Mutant: a group/version with more than one "/" is read as group and version.
ParseFirstTwo(gv) ==
  CASE Len(gv) = 0 -> [ok |-> TRUE, group |-> "", version |-> ""]
    [] Len(gv) = 1 -> [ok |-> TRUE, group |-> "", version |-> gv[1]]
    [] OTHER -> [ok |-> TRUE, group |-> gv[1], version |-> gv[2]]

\* schema.ParseGroupVersion: "" and "/" are the empty group and version, one
\* segment is a version of the core group, two are group/version, more fail.
ParseGroupVersion(gv) ==
  CASE Len(gv) = 0 \/ gv = <<"", "">> -> [ok |-> TRUE, group |-> "", version |-> ""]
    [] Len(gv) = 1 -> [ok |-> TRUE, group |-> "", version |-> gv[1]]
    [] Len(gv) = 2 -> [ok |-> TRUE, group |-> gv[1], version |-> gv[2]]
    [] OTHER -> [ok |-> FALSE, group |-> "", version |-> ""]

\* Mutant: the controller is accepted on its kind alone.
KindMatches(ref, group, resp) == ref.kind = resp.kind

\* ref.Kind == controllerObj kind && refGV.Group == controllerObj group
KindGroupMatch(ref, group, resp) == ref.kind = resp.kind /\ group = resp.group

(***************************************************************************)
(* What a handler did with one event: the keys it passed to q.Add, the      *)
(* errors it gave to utilruntime.HandleError, the calls of fn it made.      *)
(***************************************************************************)
Out(adds, reports, lookups) == [adds |-> adds, reports |-> reports, lookups |-> lookups]

\* enqueueFn of WatchForObject.
EnqueueObject(o) ==
  LET k == DeletionHandlingKey(o) IN
    IF ~k.ok THEN Out(<<>>, 1, 0) ELSE Out(<<k.key>>, 0, 0)

\* Mutant: the child's own key is enqueued in place of the controller's.
EnqueueChildKey(o, ref, group, resp) == Out(<<MetaNamespaceKey(o)>>, 0, 1)

\* Mutant: every failure of fn is taken for not-found and goes unreported.
EnqueueUnreported(o, ref, group, resp) ==
  IF resp.err = "nil" /\ KindGroupMatch(ref, group, resp)
    THEN LET k == DeletionHandlingKey(ControllerObj(resp, o.ns, ref.name)) IN
           IF ~k.ok THEN Out(<<>>, 1, 1) ELSE Out(<<k.key>>, 0, 1)
    ELSE Out(<<>>, 0, 1)

\* enqueueFn of WatchForController from the fn call on: the lookup, the check
\* of kind and group, the key of the controller.
EnqueueResolved(o, ref, group, resp) ==
  CASE resp.err = "notfound" -> Out(<<>>, 0, 1)
    [] resp.err = "other" -> Out(<<>>, 1, 1)
    [] OTHER ->
         IF KindGroupMatch(ref, group, resp)
           THEN LET k == DeletionHandlingKey(ControllerObj(resp, o.ns, ref.name)) IN
                  IF ~k.ok THEN Out(<<>>, 1, 1) ELSE Out(<<k.key>>, 0, 1)
           ELSE Out(<<>>, 0, 1)

\* Mutant: a tombstone is unwrapped and the object it holds is routed.
EnqueueUnwrapped(filter, o, resp) ==
  IF o.kind = "nometa" THEN Out(<<>>, 1, 0)
  ELSE IF ~FilterPasses(filter, o) THEN Out(<<>>, 0, 0)
  ELSE LET ref == GetControllerOf(o) IN
    IF ref = NoRef THEN Out(<<>>, 0, 0)
    ELSE LET gv == ParseGroupVersion(ref.apiVersion) IN
      IF ~gv.ok THEN Out(<<>>, 1, 0)
      ELSE EnqueueResolved(o, ref, gv.group, resp)

\* enqueueFn of WatchForController, with filter the map m and resp what fn returns.
EnqueueController(filter, o, resp) ==
  IF o.kind # "object" THEN Out(<<>>, 1, 0)
  ELSE IF ~FilterPasses(filter, o) THEN Out(<<>>, 0, 0)
  ELSE LET ref == GetControllerOf(o) IN
    IF ref = NoRef THEN Out(<<>>, 0, 0)
    ELSE LET gv == ParseGroupVersion(ref.apiVersion) IN
      IF ~gv.ok THEN Out(<<>>, 1, 0)
      ELSE EnqueueResolved(o, ref, gv.group, resp)

(***************************************************************************)
(* The work queue (workqueue.Type): Add, Get, Done.                        *)
(***************************************************************************)
\* Mutant: every call of q.Add appends the item, waiting already or not.
QueueAddAlways(q, item) == [q EXCEPT !.dirty = @ \cup {item}, !.queue = Append(@, item)]

\* q.Add(item): dropped when already dirty, held back while being processed.
QueueAdd(q, item) ==
  IF item \in q.dirty THEN q
  ELSE IF item \in q.processing THEN [q EXCEPT !.dirty = @ \cup {item}]
  ELSE [q EXCEPT !.dirty = @ \cup {item}, !.queue = Append(@, item)]

RECURSIVE QueueAddAll(_, _)
QueueAddAll(q, items) ==
  IF items = <<>> THEN q ELSE QueueAddAll(QueueAdd(q, Head(items)), Tail(items))

TheQueue == [queue |-> queue, dirty |-> dirty, processing |-> processing]

\* The keys the events of the model can lead to: the objects' own keys and the
\* keys of the controllers they name.
Keys ==
  {MetaNamespaceKey(o) : o \in Children}
    \cup {MetaNamespaceKey(ControllerObj(Found("", "", TRUE), o.ns, GetControllerOf(o).name)) :
            o \in {c \in Children : GetControllerOf(c) # NoRef}}

NoAdds == [k \in Keys |-> 0]

\* The count of q.Add calls after the calls for items.
RECURSIVE CountAdds(_, _)
CountAdds(a, items) ==
  IF items = <<>> THEN a
  ELSE CountAdds([a EXCEPT ![Head(items)] = IF @ < MaxAdds THEN @ + 1 ELSE @], Tail(items))

\* Mutant: after a failure was reported the handler drops every event.
HandleUntilFailure(o, resp) ==
  IF ev.out.reports > 0 THEN Out(<<>>, 0, 0)
  ELSE IF mode = "object" THEN EnqueueObject(o) ELSE EnqueueController(m, o, resp)

\* The handler registered for the mode, run on the current object of an event.
Handle(o, resp) ==
  IF mode = "object" THEN EnqueueObject(o) ELSE EnqueueController(m, o, resp)

\* Mutant: the update handler routes the old object.
UpdateFuncOld(old, cur) == old

\* UpdateFunc: func(_, cur interface{}) { enqueueFn(cur) }: the object the
\* update handler passes to enqueueFn.
UpdateFunc(old, cur) == cur

\* How an event ended: a key was enqueued, a failure was reported and the event
\* dropped, or the event was dropped without a report.
Outcome(e) ==
  CASE e.type = "none" -> "none"
    [] e.out.adds # <<>> -> "enqueued"
    [] e.out.reports > 0 -> "reported"
    [] OTHER -> "dropped"

\* One event delivered: the handler runs to its end and its keys are added. prev
\* keeps how the event before it ended.
Deliver(type, old, cur) ==
  LET out == Handle(IF type = "update" THEN UpdateFunc(old, cur) ELSE cur, lister)
      q == QueueAddAll(TheQueue, out.adds)
  IN  /\ ev' = [type |-> type, old |-> old, cur |-> cur, out |-> out, prev |-> Outcome(ev)]
      /\ queue' = q.queue
      /\ dirty' = q.dirty
      /\ processing' = q.processing
      /\ added' = CountAdds(added, out.adds)
      /\ UNCHANGED <<mode, m, lister, uvars, evars>>

\* AddFunc: enqueueFn.
OnAdd == \E o \in LivePayloads : Deliver("add", NoMeta, o)

\* UpdateFunc: func(_, cur interface{}) { enqueueFn(cur) }.
OnUpdate == \E old \in OldPayloads, o \in LivePayloads : Deliver("update", old, o)

\* DeleteFunc: enqueueFn.
OnDelete == \E o \in DeletePayloads : Deliver("delete", NoMeta, o)

\* The objects of the events delivered while consumers run: a child of a
\* controller, a child named like it, a cluster-scoped child, an object that
\* nothing controls.
QueueChildren ==
  {Object("ns1", "a", Labels({<<"app", "tikv">>}), <<OwnerRef("p")>>),
   Object("ns1", "p", Labels({<<"app", "tikv">>, <<"tier", "db">>}), <<OwnerRef("p")>>),
   Object("", "a", Labels({<<"app", "tikv">>}), <<OwnerRef("p")>>),
   Object("ns1", "a", Labels({<<"app", "pd">>}), <<>>)}

\* AddFunc, UpdateFunc and DeleteFunc on those objects.
QueueOnAdd == \E o \in QueueChildren : Deliver("add", NoMeta, o)

QueueOnUpdate ==
  \E o \in QueueChildren \cup {NoMeta} :
    Deliver("update", Object("ns1", "a", NoLabels, <<>>), o)

QueueOnDelete ==
  \E o \in QueueChildren : Deliver("delete", NoMeta, o) \/ Deliver("delete", NoMeta, Tombstone(o))

\* A consumer takes the first key: q.Get().
QueueGet ==
  /\ queue # <<>>
  /\ processing' = processing \cup {Head(queue)}
  /\ dirty' = dirty \ {Head(queue)}
  /\ queue' = Tail(queue)
  /\ added' = [added EXCEPT ![Head(queue)] = 0]
  /\ UNCHANGED <<mode, m, lister, ev, uvars, evars>>

\* Mutant: Done forgets a key that was added while the consumer had it.
QueueDoneForgets ==
  /\ \E item \in processing :
       /\ processing' = processing \ {item}
       /\ queue' = queue
  /\ UNCHANGED <<mode, m, lister, dirty, added, ev, uvars, evars>>

\* A consumer is done with a key: q.Done(item); a key added meanwhile is queued again.
QueueDone ==
  /\ \E item \in processing :
       /\ processing' = processing \ {item}
       /\ queue' = IF item \in dirty THEN Append(queue, item) ELSE queue
  /\ UNCHANGED <<mode, m, lister, dirty, added, ev, uvars, evars>>

NoEvent ==
  [type |-> "none", old |-> NoMeta, cur |-> NoMeta, out |-> Out(<<>>, 0, 0), prev |-> "none"]

NotFound == [err |-> "notfound", kind |-> "", group |-> "", hasMeta |-> FALSE]

(***************************************************************************)
(* The error classifier: RequeueError and IgnoreError, the functions that   *)
(* build them and the predicates that recognise them. An error value is its *)
(* dynamic type and its message.                                            *)
(***************************************************************************)
\* strconv.Itoa for the integers the formats are given.
Itoa(n) ==
  LET digit == <<"0", "1", "2", "3", "4", "5", "6", "7", "8", "9">>
  IN  IF n < 10 THEN digit[n + 1] ELSE digit[(n \div 10) + 1] \o digit[(n % 10) + 1]

IntArg(n) == [t |-> "int", v |-> Itoa(n)]

StrArg(str) == [t |-> "string", v |-> str]

\* A format is its pieces: literal text and the verbs %d and %s.
IsVerb(piece) == piece \in {"%d", "%s"}

\* One verb applied to one operand.
FormatVerb(verb, arg) ==
  IF (verb = "%d" /\ arg.t = "int") \/ (verb = "%s" /\ arg.t = "string")
    THEN arg.v
    ELSE "%!" \o SubSeq(verb, 2, 2) \o "(" \o arg.t \o "=" \o arg.v \o ")"

RECURSIVE ExtraArgs(_)
ExtraArgs(a) ==
  IF a = <<>> THEN ""
  ELSE Head(a).t \o "=" \o Head(a).v
         \o (IF Tail(a) = <<>> THEN "" ELSE ", " \o ExtraArgs(Tail(a)))

\* fmt.Sprintf(format, a...).
RECURSIVE Sprintf(_, _)
Sprintf(format, a) ==
  IF format = <<>>
    THEN IF a = <<>> THEN "" ELSE "%!(EXTRA " \o ExtraArgs(a) \o ")"
  ELSE IF ~IsVerb(Head(format)) THEN Head(format) \o Sprintf(Tail(format), a)
  ELSE IF a = <<>>
    THEN "%!" \o SubSeq(Head(format), 2, 2) \o "(MISSING)" \o Sprintf(Tail(format), a)
  ELSE FormatVerb(Head(format), Head(a)) \o Sprintf(Tail(format), Tail(a))

ErrorValue(type, str) == [type |-> type, s |-> str]

\* func (re *RequeueError) Error() string, func (re *IgnoreError) Error() string.
ErrorString(err) == err.s

\* The nil error.
NilError == ErrorValue("nil", "")

\* return &RequeueError{fmt.Sprintf(format, a...)}
RequeueErrorf(format, a) == ErrorValue("*RequeueError", Sprintf(format, a))

\* return &IgnoreError{fmt.Sprintf(format, a...)}
IgnoreErrorf(format, a) == ErrorValue("*IgnoreError", Sprintf(format, a))

\* fmt.Errorf(format, a...).
Errorf(format, a) == ErrorValue("*errors.errorString", Sprintf(format, a))

\* fmt.Errorf("failed: %v", err): the message of err in a plain error.
ErrorfOf(err) == ErrorValue("*errors.errorString", "failed: " \o ErrorString(err))

\* _, ok := err.(*RequeueError); return ok
IsRequeueError(err) == err.type = "*RequeueError"

\* Mutant: the ignore predicate accepts both marker types.
IsMarkerError(err) == err.type \in {"*RequeueError", "*IgnoreError"}

\* _, ok := err.(*IgnoreError); return ok
IsIgnoreError(err) == err.type = "*IgnoreError"

\* The formats and operands the errors are built from.
Formats == {<<"x ", "%d">>, <<"retry ", "%s", " in ", "%d">>, <<"plain">>, <<"%s">>}

ArgLists ==
  {<<>>, <<IntArg(1)>>, <<StrArg("tc")>>, <<StrArg("tc"), IntArg(42)>>}

\* Nothing built and nothing asked yet: the nil error.
NoCls == [err |-> NilError, by |-> "none", asked |-> {}, requeue |-> FALSE, ignore |-> FALSE]

Built(err, by) == [NoCls EXCEPT !.err = err, !.by = by]

\* An error is built by one of the constructors.
Build ==
  /\ \E format \in Formats, a \in ArgLists :
       \/ cls' = Built(RequeueErrorf(format, a), "RequeueErrorf")
       \/ cls' = Built(IgnoreErrorf(format, a), "IgnoreErrorf")
       \/ cls' = Built(Errorf(format, a), "Errorf")
  /\ UNCHANGED <<uvars, rvars>>

\* A caller formats the error built into a plain error before it is classified.
Reformat ==
  /\ cls.by \in {"RequeueErrorf", "IgnoreErrorf", "Errorf"}
  /\ cls' = Built(ErrorfOf(cls.err), "ErrorfOf")
  /\ UNCHANGED <<uvars, rvars>>

\* IsRequeueError(err) is asked of the error at hand.
AskRequeue ==
  /\ "requeue" \notin cls.asked
  /\ cls' = [cls EXCEPT !.requeue = IsRequeueError(cls.err), !.asked = @ \cup {"requeue"}]
  /\ UNCHANGED <<uvars, rvars>>

\* IsIgnoreError(err) is asked of the error at hand.
AskIgnore ==
  /\ "ignore" \notin cls.asked
  /\ cls' = [cls EXCEPT !.ignore = IsIgnoreError(cls.err), !.asked = @ \cup {"ignore"}]
  /\ UNCHANGED <<uvars, rvars>>

(***************************************************************************)
(* The router's state while only the updater runs.                         *)
(***************************************************************************)
RouterOff ==
  /\ mode = "off"
  /\ m = NoLabels
  /\ lister = NotFound
  /\ queue = <<>>
  /\ dirty = {}
  /\ processing = {}
  /\ added = NoAdds
  /\ ev = NoEvent
  /\ cls = NoCls

Idle ==
  /\ store = InitialObject
  /\ gu = [p \in Procs |-> [pc |-> "idle", obj |-> LocalObject(p, FALSE),
                            before |-> LocalObject(p, FALSE),
                            steps |-> 0, err |-> Nil, at |-> "none", ret |-> Nil]]
  /\ cnt = [p \in Procs |-> NoCount]
  /\ acc = [p \in Procs |-> NoAcc]
  /\ RouterOff

\* One invocation of GuaranteedUpdate and another writer.
Init ==
  /\ Idle
  /\ kind \in KindsAlone
  /\ writer = MaxWriterWrites
  /\ client \in Clients

\* Two concurrent invocations of GuaranteedUpdate and another writer.
ConcInit ==
  /\ Idle
  /\ kind \in KindPairs
  /\ writer = MaxConcWrites
  /\ client \in Clients

\* The updater's state while only the router runs.
UpdaterOff ==
  /\ store = InitialObject
  /\ gu = [p \in Procs |-> [pc |-> "idle", obj |-> LocalObject(p, FALSE),
                            before |-> LocalObject(p, FALSE),
                            steps |-> 0, err |-> Nil, at |-> "none", ret |-> Nil]]
  /\ cnt = [p \in Procs |-> NoCount]
  /\ acc = [p \in Procs |-> NoAcc]
  /\ kind = [p \in Procs |-> "absent"]
  /\ writer = 0
  /\ client = "replace"

\* An empty queue and no event delivered yet.
Unrouted ==
  /\ UpdaterOff
  /\ queue = <<>>
  /\ dirty = {}
  /\ processing = {}
  /\ added = NoAdds
  /\ ev = NoEvent
  /\ cls = NoCls

\* WatchForObject(informer, q), or WatchForController(informer, q, fn, m).
RouterInit ==
  /\ Unrouted
  /\ \/ mode = "object" /\ m = NoLabels /\ lister = NotFound
     \/ mode = "controller" /\ m \in Filters /\ lister \in Lookups

\* The events the informer delivers; nothing is taken from the queue.
RouterNext ==
  \/ OnAdd
  \/ OnUpdate
  \/ OnDelete

RouterSpec == RouterInit /\ [][RouterNext]_vars

\* The router without a filter, in front of a controller that exists.
QueueInit ==
  /\ Unrouted
  /\ m = NoLabels
  /\ \/ mode = "object" /\ lister = NotFound
     \/ mode = "controller" /\ lister = Found("TikvCluster", "tikv.org", TRUE)

\* The events and the consumers of the queue.
QueueNext ==
  \/ QueueOnAdd
  \/ QueueOnUpdate
  \/ QueueOnDelete
  \/ QueueGet
  \/ QueueDone

QueueSpec == QueueInit /\ [][QueueNext]_vars

\* The consumer that took key k finishes with it.
QueueDoneOf(k) == QueueDone /\ k \in processing /\ k \notin processing'

\* The consumers keep running: a waiting key is taken, a taken key is finished.
QueueFairSpec ==
  QueueSpec /\ WF_vars(QueueGet) /\ \A k \in Keys : WF_vars(QueueDoneOf(k))

\* The classifier alone: nothing is updated and nothing is routed.
ErrInit ==
  /\ UpdaterOff
  /\ RouterOff
  /\ cls = NoCls

ErrNext ==
  \/ Build
  \/ Reformat
  \/ AskRequeue
  \/ AskIgnore

ErrSpec == ErrInit /\ [][ErrNext]_vars

Next ==
  \/ \E p \in Procs : Call(p)
  \/ \E p \in Procs : Fetch(p)
  \/ \E p \in Procs : Mutate(p)
  \/ \E p \in Procs : Write(p)
  \/ WriterWrite

Spec == Init /\ [][Next]_vars

ConcSpec == ConcInit /\ [][Next]_vars

\* A started invocation keeps running: its calls return and its sleeps end.
Run(p) == Fetch(p) \/ Mutate(p) \/ Write(p)

FairSpec == Spec /\ \A p \in Procs : WF_vars(Run(p))

(***************************************************************************)
(* Properties of GuaranteedUpdate.                                         *)
(***************************************************************************)
Done(p) == gu[p].pc = "done"

Ok(p) == Done(p) /\ gu[p].err = Nil

\* The object the store holds after accepting a write of o on top of base.
Accepted(base, o) == [o EXCEPT !.rv = base.rv + 1]

\* The change of invocation p is in object o.
HasChange(p, o) ==
  CASE kind[p] = "set" -> o.data[p] = 1
    [] kind[p] = "annotate" -> p \in o.ann.keys
    [] OTHER -> TRUE

\* The invocation was called with an object the caller had not edited.
Fresh(p) == ~cnt[p].edited

\* C1: no update is lost. Every write GuaranteedUpdate gets accepted is
\* updateFunc applied to the object that was current in the store at the moment
\* of the write, and when two invocations that each apply their own change both
\* return success, the stored object contains both changes.
C1_NoLostUpdate ==
  /\ \A p \in Procs :
       acc[p].set =>
         acc[p].result = Accepted(acc[p].base, MutateFn(p, kind[p], acc[p].base))
  /\ \A p \in Procs : Ok(p) => HasChange(p, store)

\* C1 fails: with a client that decodes into obj, two invocations called with
\* unedited objects both return success, the first after a rejected write,
\* and its change is not in the store: the run after the conflict found its own
\* change in obj after cli.Get, compared equal and returned nil without a write.
C1_Witness ==
  /\ client = "decode"
  /\ \A p \in Procs : Ok(p) /\ Fresh(p) /\ kind[p] = "set"
  /\ cnt["p1"].wconf = 1 /\ cnt["p1"].writes = 1 /\ ~acc["p1"].set
  /\ store.data["p1"] = 0 /\ store.data["p2"] = 1

\* C1 with a client whose Get replaces obj: no update is lost.
C1_ReplacingClient == client = "replace" => C1_NoLostUpdate

\* C2: when updateFunc returns nil and leaves the fetched object as it was, the
\* invocation ends there with success and that run of the closure issues no
\* write; an updateFunc that never changes anything never writes at all.
C2_NoWriteWhenUnchanged ==
  \A p \in Procs :
    /\ (gu[p].at = "fn" /\ gu[p].ret = Nil /\ gu[p].obj = gu[p].before)
         => (Ok(p) /\ cnt[p].cyc.w = 0)
    /\ kind[p] = "noop" => (cnt[p].writes = 0 /\ ~acc[p].set)

C2_Witness ==
  \E p \in Procs :
    /\ kind[p] = "noop" /\ Ok(p) /\ cnt[p].mutates = 1
    /\ gu[p].obj = store /\ store.rv > 1

\* Conflicts an invocation met: rejected writes and conflict-class errors.
Conflicts(p) == cnt[p].wconf + cnt[p].soft

C3_Bounded ==
  \A p \in Procs :
    /\ cnt[p].fetches <= Steps /\ cnt[p].mutates <= Steps /\ cnt[p].writes <= Steps
    /\ Conflicts(p) <= Steps
    /\ Conflicts(p) = Steps => (Done(p) /\ IsConflict(gu[p].err))
    /\ Conflicts(p) < Steps => cnt[p].fetches <= Conflicts(p) + 1

\* C3: GuaranteedUpdate terminates. The closure runs at most Steps times (Steps - 1
\* retries); the conflict that ends the last run is returned to the caller, and
\* every started invocation ends.
C3_Terminates ==
  /\ []C3_Bounded
  /\ \A p \in Procs : (gu[p].pc = "fetch") ~> Done(p)

C3_Witness ==
  \E p \in Procs :
    /\ cnt[p].wconf = Steps /\ cnt[p].fetches = Steps
    /\ Done(p) /\ gu[p].err = Err("update", "conflict")

\* C4: when the first write meets a version conflict and the store would accept
\* the second, the invocation returns success after exactly two fetches, two
\* updateFunc calls and two writes; the second run starts from a fetch of the
\* store's newer version, and what is stored is updateFunc applied to that newer
\* version.
C4_ConflictThenSuccess ==
  \A p \in Procs :
    LET c == cnt[p]
        g == gu[p]
    IN  /\ (c.wconf = 1 /\ c.soft = 0 /\ c.writes = 1) =>
             /\ g.pc = "fetch" => (c.fetches = 1 /\ c.mutates = 1)
             /\ g.pc \in {"mutate", "write"} =>
                  (c.fetches = 2 /\ g.before.rv > c.rv1 /\ g.steps = Steps - 1)
        /\ (c.wconf = 1 /\ c.soft = 0 /\ Ok(p)) =>
             /\ c.fetches = 2 /\ c.mutates = 2 /\ c.writes = 2
             /\ acc[p].set /\ g.before = acc[p].base /\ acc[p].base.rv > c.rv1
             /\ acc[p].result = Accepted(g.before, MutateFn(p, kind[p], g.before))
             /\ g.obj = acc[p].result

\* C4 fails: with a client that decodes into obj, an invocation called with an
\* unedited object has its first write rejected, fetches the newer version, runs
\* updateFunc a second time and returns success without a second write; the
\* store holds the other writer's object, without the change.
C4_Witness ==
  \E p \in Procs :
    /\ client = "decode" /\ Fresh(p) /\ kind[p] = "set"
    /\ cnt[p].wconf = 1 /\ cnt[p].soft = 0 /\ Ok(p)
    /\ cnt[p].fetches = 2 /\ cnt[p].mutates = 2 /\ cnt[p].writes = 1
    /\ gu[p].before.rv = store.rv /\ gu[p].obj = gu[p].before
    /\ store.data[p] = 0 /\ store.data["w"] >= 1

\* C4 with a client whose Get replaces obj: two full runs, and the result of a
\* conflict-free run on the newer version.
C4_ReplacingClient == client = "replace" => C4_ConflictThenSuccess

Unretried(g) == g.ret # Nil /\ ~(g.at = "update" /\ IsConflict(g.ret))

\* C6 as stated: a key-derivation error, any fetch error, any updateFunc error or
\* a non-conflict write error ends the invocation with that error.
C6_Original ==
  \A p \in Procs : Unretried(gu[p]) => (Done(p) /\ gu[p].err = gu[p].ret)

\* C6 as amended: only a conflict-class error is retried, whichever call returned
\* it. Any other error ends the invocation in that run of the closure with that
\* error unmodified; a key-derivation error comes before any fetch, and a fetch
\* error or updateFunc error leaves that run without a write.
C6_OnlyConflictsRetried ==
  \A p \in Procs :
    LET c == cnt[p]
        g == gu[p]
    IN  /\ (g.ret # Nil /\ ~IsConflict(g.ret)) => (Done(p) /\ g.err = g.ret)
        /\ (g.ret # Nil /\ g.pc # "done") => (IsConflict(g.ret) /\ g.pc = "fetch")
        /\ (g.at = "key" /\ g.ret # Nil) => (c.fetches = 0 /\ c.mutates = 0 /\ c.writes = 0)
        /\ (g.at = "get" /\ g.ret # Nil) => (c.cyc.m = 0 /\ c.cyc.w = 0)
        /\ (g.at = "fn" /\ g.ret # Nil) => c.cyc.w = 0
        /\ c.cyc.f <= 1 /\ c.cyc.m <= c.cyc.f /\ c.cyc.w <= c.cyc.m

C6_Witness ==
  \E p \in Procs :
    /\ Done(p) /\ gu[p].err = Err("fn", "other") /\ cnt[p].fetches = 2
    /\ cnt[p].soft = 1 /\ cnt[p].writes = 0

\* updateFunc has just returned nil in invocation p.
Mutated(p) == gu[p].at = "fn" /\ gu[p].ret = Nil

\* C18 as stated: the write is skipped only when the mutated object and the
\* snapshot are structurally identical; any structural difference causes a write.
C18_Original ==
  \A p \in Procs :
    Mutated(p) => ((gu[p].pc = "write") = (gu[p].obj # gu[p].before))

\* C18 as amended: the comparison is semantic equality. A write is issued exactly
\* when the mutated object and the snapshot differ in their values; a nil map
\* against an empty map is a structural difference and no semantic one, so a
\* change from one to the other is skipped like no change, with success.
C18_SemanticEquality ==
  \A p \in Procs :
    LET g == gu[p] IN
      /\ Mutated(p) =>
            /\ (g.pc = "write") =
                 (g.obj.rv # g.before.rv \/ g.obj.data # g.before.data
                    \/ g.obj.ann.keys # g.before.ann.keys)
            /\ g.pc # "write" => (Ok(p) /\ cnt[p].cyc.w = 0)
      /\ kind[p] = "initmap" => (cnt[p].writes = 0 /\ ~acc[p].set)

C18_Witness ==
  \E p \in Procs :
    /\ kind[p] = "initmap" /\ Mutated(p) /\ Ok(p)
    /\ gu[p].before.ann = NilMap /\ gu[p].obj.ann = EmptyMap
    /\ cnt[p].mutates = 1 /\ cnt[p].writes = 0
    /\ store.ann = NilMap /\ store.rv > 1

\* C20: what GuaranteedUpdate writes is updateFunc applied to the object fetched
\* in the same run of the closure. The fetch overwrites the local object, so the
\* edits the caller made before the call and what an earlier run left in it do
\* not reach the store; updateFunc runs once per run, after the fetch and before
\* the write.
C20_WritesFromFetchedState ==
  \A p \in Procs :
    LET c == cnt[p]
        g == gu[p]
    IN  /\ g.pc = "mutate" =>
              (g.obj = g.before /\ g.before.rv >= 1 /\ c.cyc = [f |-> 1, m |-> 0, w |-> 0])
        /\ g.pc = "write" =>
              (g.obj = MutateFn(p, kind[p], g.before) /\ c.cyc = [f |-> 1, m |-> 1, w |-> 0])
        /\ acc[p].set =>
              /\ g.before = acc[p].base
              /\ acc[p].result = Accepted(g.before, MutateFn(p, kind[p], g.before))
        /\ kind[p] # "set" => store.data[p] = 0
        /\ c.cyc.f <= 1 /\ c.cyc.m <= c.cyc.f /\ c.cyc.w <= c.cyc.m
        /\ c.mutates <= c.fetches /\ c.writes <= c.mutates

\* C20 fails: with a client that decodes into obj, the field the caller had set
\* in the local object before the call is still in obj after cli.Get and is
\* written to the store beside the annotation updateFunc added.
C20_Witness ==
  \E p \in Procs :
    /\ client = "decode" /\ cnt[p].edited /\ kind[p] = "annotate"
    /\ Ok(p) /\ Conflicts(p) = 0 /\ cnt[p].writes = 1 /\ acc[p].set
    /\ acc[p].base.data[p] = 0
    /\ store = acc[p].result /\ store.data[p] = 1 /\ p \in store.ann.keys

\* C20 with a client whose Get replaces obj: every write is updateFunc applied
\* to the stored object fetched in the same run.
C20_ReplacingClient == client = "replace" => C20_WritesFromFetchedState

(***************************************************************************)
(* Properties of the event routers, stated on the last event delivered.    *)
(***************************************************************************)
Routed(md) == mode = md /\ ev.type # "none"

\* "namespace/name", or the name alone for a cluster-scoped object.
KeyOf(ns, nm) == IF ns = "" THEN nm ELSE ns \o "/" \o nm

\* The labels carry every pair the filter requires.
LabelsCover(filter, o) == \A pair \in filter.kv : pair \in o.labels.kv

\* The handler of WatchForController gets as far as calling fn for o.
LooksUp(o) ==
  /\ o.kind = "object"
  /\ m.isNil \/ LabelsCover(m, o)
  /\ GetControllerOf(o) # NoRef
  /\ ParseGroupVersion(GetControllerOf(o).apiVersion).ok

\* The kind and the group of the controlling reference of o are those of the
\* object fn returns.
SameKindAndGroup(o) ==
  /\ GetControllerOf(o).kind = lister.kind
  /\ ParseGroupVersion(GetControllerOf(o).apiVersion).group = lister.group

\* C7: in direct mode every add, update and delete event of an object enqueues
\* that object's own key, once, and reports no error; a delete that carries a
\* tombstone enqueues the key the tombstone kept.
C7_DirectEnqueuesOwnKey ==
  (Routed("object") /\ ev.cur.kind \in {"object", "tombstone"}) =>
    /\ ev.out.adds = <<KeyOf(ev.cur.ns, ev.cur.name)>>
    /\ ev.cur.kind = "tombstone" => ev.out.adds = <<ev.cur.key>>
    /\ ev.out.reports = 0
    /\ KeyOf(ev.cur.ns, ev.cur.name) \in dirty
    /\ \E i \in 1..Len(queue) : queue[i] = KeyOf(ev.cur.ns, ev.cur.name)

C7_Witness ==
  /\ Routed("object") /\ ev.type = "delete" /\ ev.cur.kind = "tombstone"
  /\ ev.out.adds = <<"ns1/a">>
  /\ queue = <<"a", "ns1/p", "ns1/a">>

\* C8: with a filter configured, an event whose labels lack a required key, or
\* carry another value for it, enqueues nothing (and looks nothing up, and
\* reports nothing), whatever controller reference the object has.
C8_FilterMismatchDrops ==
  (Routed("controller") /\ ev.cur.kind = "object" /\ ~m.isNil /\ ~LabelsCover(m, ev.cur)) =>
    ev.out = Out(<<>>, 0, 0)

C8_Witness ==
  /\ Routed("controller") /\ ev.type = "update"
  /\ m = Labels({<<"app", "tikv">>, <<"tier", "db">>})
  /\ ev.cur = Object("ns1", "a", Labels({<<"app", "tikv">>}), <<OwnerRef("p")>>)
  /\ lister = Found("TikvCluster", "tikv.org", TRUE)
  /\ ev.out.adds = <<>>

\* The event of C9: the filter passes (or there is none) and the controller
\* resolves: a controlling reference, the lookup finds an object of that kind and
\* group, and that object has a key.
Resolves(o) ==
  /\ LooksUp(o)
  /\ lister.err = "nil" /\ lister.hasMeta
  /\ SameKindAndGroup(o)

\* C9 as stated: the controller's key is enqueued and the child's own key never is.
C9_Original ==
  (Routed("controller") /\ Resolves(ev.cur)) =>
    /\ ev.out.adds = <<KeyOf(ev.cur.ns, GetControllerOf(ev.cur).name)>>
    /\ \A i \in 1..Len(ev.out.adds) : ev.out.adds[i] # KeyOf(ev.cur.ns, ev.cur.name)

\* C9 as amended: exactly the resolved controller's key is enqueued, made of the
\* controller's namespace and name; it is the child's own key only when the
\* controller has the name of the child.
C9_ControllerKey ==
  (Routed("controller") /\ Resolves(ev.cur)) =>
    /\ ev.out = Out(<<KeyOf(ev.cur.ns, GetControllerOf(ev.cur).name)>>, 0, 1)
    /\ KeyOf(ev.cur.ns, GetControllerOf(ev.cur).name) \in dirty
    /\ (\E i \in 1..Len(ev.out.adds) : ev.out.adds[i] = KeyOf(ev.cur.ns, ev.cur.name))
         => GetControllerOf(ev.cur).name = ev.cur.name

C9_Witness ==
  /\ Routed("controller") /\ Resolves(ev.cur)
  /\ m = Labels({<<"app", "tikv">>})
  /\ ev.cur = Object("ns1", "a", Labels({<<"app", "tikv">>, <<"tier", "db">>}), <<OwnerRef("p")>>)
  /\ ev.out.adds = <<"ns1/p">>
  /\ queue = <<"p", "ns1/p">>

\* C10: when the object fn returns has another kind or another group than the
\* controlling reference, nothing is enqueued and no error is reported, though
\* the name matches; a key is enqueued only when kind and group both match.
C10_KindGroupMismatchDrops ==
  Routed("controller") =>
    /\ (LooksUp(ev.cur) /\ lister.err = "nil" /\ ~SameKindAndGroup(ev.cur))
         => ev.out = Out(<<>>, 0, 1)
    /\ ev.out.adds # <<>>
         => (LooksUp(ev.cur) /\ lister.err = "nil" /\ SameKindAndGroup(ev.cur))

C10_Witness ==
  /\ Routed("controller") /\ m.isNil
  /\ ev.cur = Object("ns1", "a", Labels({<<"app", "tikv">>}), <<OwnerRef("p")>>)
  /\ lister = Found("TikvCluster", "apps", TRUE)
  /\ ev.out = Out(<<>>, 0, 1)

\* The queue is as it was before the step.
QueueUntouched == queue' = queue /\ dirty' = dirty /\ processing' = processing

\* C11: when fn reports not-found the event is dropped: nothing is enqueued and
\* nothing goes to the error reporter. When fn fails for another reason the
\* failure goes to the error reporter, once, and nothing is enqueued. In both
\* cases fn was called once and the queue is left as it was.
C11_LookupFailureDrops ==
  /\ [](Routed("controller") /\ LooksUp(ev.cur) =>
          /\ lister.err = "notfound" => ev.out = Out(<<>>, 0, 1)
          /\ lister.err = "other" => ev.out = Out(<<>>, 1, 1))
  /\ [][(mode = "controller" /\ LooksUp(ev'.cur) /\ lister.err # "nil")
          => QueueUntouched]_vars

C11_Witness ==
  /\ Routed("controller") /\ LooksUp(ev.cur) /\ ev.type = "add"
  /\ lister.err = "other"
  /\ ev.out = Out(<<>>, 1, 1)
  /\ queue = <<>> /\ dirty = {}

(***************************************************************************)
(* Properties of the router in front of the queue and its consumers.       *)
(***************************************************************************)
\* The entries of the queue that hold key k.
Occ(k) == Cardinality({i \in 1..Len(queue) : queue[i] = k})

\* A step that delivers an event: the consumers' steps change processing.
EventStep == processing' = processing

\* The controller's key of a child that resolves.
ControllerKey(o) == KeyOf(o.ns, GetControllerOf(o).name)

\* Key k was added and not handed to a consumer since: it is in the queue once,
\* or held back once while a consumer has it. A key not added is not in the queue.
OnePending(k) ==
  /\ Occ(k) <= 1
  /\ (added[k] > 0) = (k \in dirty)
  /\ k \in dirty => ((Occ(k) = 1) # (k \in processing))
  /\ k \notin dirty => Occ(k) = 0

\* An update event of a child whose controller resolves, with no filter: the
\* controller's key waits afterwards, and the queue is as before when it waited
\* already, one entry longer when it did not.
UpdateCollapses ==
  (EventStep /\ mode = "controller" /\ m.isNil /\ ev'.type = "update" /\ Resolves(ev'.cur)) =>
    LET K == ControllerKey(ev'.cur) IN
      /\ ev'.out.adds = <<K>>
      /\ K \in dirty'
      /\ K \in dirty => (queue' = queue /\ dirty' = dirty)
      /\ K \notin dirty \cup processing => queue' = Append(queue, K)
      /\ K \in processing => queue' = queue

\* C12: any number of calls of q.Add for one key before it is handed to a
\* consumer leave one pending entry for it. End to end: update events of child C
\* controlled by the TikvCluster P, with no filter, delivered before a consumer
\* takes P's key leave exactly one entry for P's key in the queue.
C12_EnqueuesCollapse ==
  /\ [](\A k \in Keys : OnePending(k))
  /\ [][UpdateCollapses]_vars

C12_Witness ==
  /\ mode = "controller" /\ m.isNil /\ ev.type = "update"
  /\ ev.cur = Object("ns1", "a", Labels({<<"app", "tikv">>}), <<OwnerRef("p")>>)
  /\ lister = Found("TikvCluster", "tikv.org", TRUE)
  /\ added["ns1/p"] = 2
  /\ queue = <<"ns1/p">> /\ dirty = {"ns1/p"} /\ processing = {}

\* C16: no work is lost between an event and the consumer. Every key a handler
\* passes to q.Add needs processing afterwards, and a key that needs processing
\* is handed to a consumer later on, also when the event came while the key was
\* waiting already or while a consumer had it.
C16_NoWorkLost ==
  /\ [][EventStep => \A i \in 1..Len(ev'.out.adds) : ev'.out.adds[i] \in dirty']_vars
  /\ \A k \in Keys : (k \in dirty) ~> (k \in processing /\ k \notin dirty)

C16_Witness ==
  /\ Routed("controller") /\ ev.type = "delete" /\ ev.out.adds = <<"ns1/p">>
  /\ processing = {"ns1/p"} /\ dirty = {"ns1/p", "p"} /\ queue = <<"p">>
  /\ added["ns1/p"] = 1

\* The key the handler of the mode enqueues for payload o, when it enqueues one.
TargetKey(o) ==
  IF mode = "object"
    THEN IF o.kind = "tombstone" THEN o.key ELSE KeyOf(o.ns, o.name)
    ELSE ControllerKey(o)

\* Payload o is one the handler of the mode has a key for.
Routable(o) ==
  IF mode = "object" THEN o.kind \in {"object", "tombstone"} ELSE Resolves(o)

\* C17: a dropped event never stops the router. An event that ends without a
\* key (no key for the payload, a failed resolution, a filter mismatch, a missing
\* controller) reports at most one error and leaves the queue and the router's
\* configuration as they were; the handlers stay ready for every later event,
\* and an event after a dropped one that has a key enqueues it as it would have
\* without the dropped event.
C17_DropsNeverStopRouter ==
  /\ [](ENABLED OnAdd /\ ENABLED OnUpdate /\ ENABLED OnDelete)
  /\ [](ev.out.adds = <<>> => (ev.out.reports <= 1 /\ ev.out.lookups <= 1))
  /\ [][(EventStep /\ ev'.out.adds = <<>>) =>
          (QueueUntouched /\ added' = added /\ UNCHANGED <<mode, m, lister>>)]_vars
  /\ [][(EventStep /\ Outcome(ev) \in {"dropped", "reported"} /\ Routable(ev'.cur)) =>
          /\ ev'.out = Out(<<TargetKey(ev'.cur)>>, 0, IF mode = "object" THEN 0 ELSE 1)
          /\ TargetKey(ev'.cur) \in dirty'
          /\ queue' = IF TargetKey(ev'.cur) \in dirty THEN queue
                       ELSE Append(queue, TargetKey(ev'.cur))]_vars

C17_Witness ==
  /\ Routed("controller") /\ ev.prev = "reported"
  /\ ev.cur = Object("ns1", "a", Labels({<<"app", "tikv">>}), <<OwnerRef("p")>>)
  /\ ev.out = Out(<<"ns1/p">>, 0, 1)
  /\ queue = <<"ns1/p">>

\* The references of o flagged as controller.
ControllerRefs(o) == {i \in 1..Len(o.refs) : o.refs[i].controller}

\* The first of them has a group/version with more than one "/".
Malformed(o) ==
  /\ ControllerRefs(o) # {}
  /\ Len(o.refs[CHOOSE i \in ControllerRefs(o) : \A k \in ControllerRefs(o) : i <= k].apiVersion) > 2

\* C19: in controller mode fn is called at most once per event, and only when
\* the filter passed, the object has a controlling reference and its
\* group/version parsed. An object that passes the filter and has no controlling
\* reference is dropped with no lookup, no enqueue and no report; one whose
\* controlling reference has a malformed group/version is reported once and
\* dropped with no lookup and no enqueue.
C19_LookupOnlyAfterChecks ==
  (Routed("controller") /\ ev.cur.kind = "object") =>
    LET o == ev.cur
        passes == m.isNil \/ LabelsCover(m, o)
    IN  /\ ev.out.lookups <= 1
        /\ ev.out.lookups = 1 => (passes /\ ControllerRefs(o) # {} /\ ~Malformed(o))
        /\ (passes /\ ControllerRefs(o) = {}) => ev.out = Out(<<>>, 0, 0)
        /\ (passes /\ Malformed(o)) => ev.out = Out(<<>>, 1, 0)
        /\ ev.out.adds # <<>> => ev.out.lookups = 1

C19_Witness ==
  /\ Routed("controller") /\ m = Labels({<<"app", "tikv">>})
  /\ lister = Found("TikvCluster", "tikv.org", TRUE)
  /\ ev.cur = Object("ns1", "a", Labels({<<"app", "tikv">>}),
                      <<Ref("TikvCluster", <<"tikv.org", "v1", "x">>, "p", TRUE)>>)
  /\ ev.out = Out(<<>>, 1, 0)
  /\ queue = <<>>

\* C21: in controller mode a payload that does not expose object metadata (a
\* delete tombstone, a value that is no object) is reported to the error
\* reporter once and dropped: fn is not called and nothing is enqueued, whatever
\* the filter, the references of the object inside the tombstone and the answer
\* of fn are. The queue is left as it was, so the controller of a child deleted
\* that way is not enqueued by that event, and the handlers stay ready.
C21_NoMetadataReportedAndDropped ==
  /\ []((Routed("controller") /\ ev.cur.kind \in {"tombstone", "nometa"}) =>
          ev.out = Out(<<>>, 1, 0))
  /\ [][(EventStep /\ mode = "controller" /\ ev'.cur.kind \in {"tombstone", "nometa"}) =>
          (QueueUntouched /\ added' = added)]_vars
  /\ []((Routed("controller") /\ ev.cur.kind \in {"tombstone", "nometa"}) =>
          (ENABLED OnAdd /\ ENABLED OnUpdate /\ ENABLED OnDelete))

C21_Witness ==
  /\ Routed("controller") /\ ev.type = "delete" /\ m.isNil
  /\ lister = Found("TikvCluster", "tikv.org", TRUE)
  /\ ev.cur = Tombstone(Object("ns1", "a", Labels({<<"app", "tikv">>}), <<OwnerRef("p")>>))
  /\ ev.out = Out(<<>>, 1, 0)
  /\ "ns1/p" \notin dirty /\ queue = <<"p">>

\* C13: in both modes an event causes at most one call of q.Add, and what the
\* handler does is decided by the current object of the event alone: the key is
\* that object's own key (direct mode) or the key of the controller it names
\* (controller mode), whatever the old object of an update was.
C13_AtMostOneAddFromCur ==
  /\ [](ev.type # "none" =>
          /\ Len(ev.out.adds) <= 1
          /\ ev.out = Handle(ev.cur, lister)
          /\ (mode = "object" /\ ev.out.adds # <<>>) =>
                ev.out.adds = <<IF ev.cur.kind = "tombstone" THEN ev.cur.key
                                ELSE KeyOf(ev.cur.ns, ev.cur.name)>>
          /\ (mode = "controller" /\ ev.out.adds # <<>>) =>
                (LooksUp(ev.cur) /\ ev.out.adds = <<ControllerKey(ev.cur)>>))
  /\ [][EventStep => Len(queue') <= Len(queue) + 1]_vars

C13_Witness ==
  /\ Routed("controller") /\ ev.type = "update" /\ m = Labels({<<"app", "tikv">>})
  /\ ev.old = Object("ns1", "b", Labels({<<"app", "tikv">>}), <<OwnerRef("q")>>)
  /\ ev.cur = Object("", "a", Labels({<<"app", "tikv">>}), <<OwnerRef("p")>>)
  /\ ev.out = Out(<<"p">>, 0, 1)
  /\ queue = <<"p">>

\* Two payloads of one object identity: objects or tombstones of the same
\* namespace and name, whatever else they carry.
SameIdentity(a, b) ==
  /\ a.kind \in {"object", "tombstone"} /\ b.kind \in {"object", "tombstone"}
  /\ a.ns = b.ns /\ a.name = b.name

\* C15: in direct mode the key is a function of namespace and name alone. Two
\* events in a row for one object identity, of any types (a delete with a
\* tombstone included) and with any labels and owner references, pass the same
\* key to q.Add, and that key is made of the namespace and the name.
C15_KeyDependsOnIdentityOnly ==
  /\ []((Routed("object") /\ ev.cur.kind \in {"object", "tombstone"}) =>
          ev.out.adds = <<KeyOf(ev.cur.ns, ev.cur.name)>>)
  /\ [][(Routed("object") /\ EventStep /\ SameIdentity(ev.cur, ev'.cur)) =>
          (ev'.out.adds = ev.out.adds /\ Len(ev'.out.adds) = 1 /\ queue' = queue)]_vars

C15_Witness ==
  /\ Routed("object") /\ ev.type = "delete"
  /\ ev.cur = Tombstone(Object("ns1", "a", Labels({<<"app", "pd">>}), <<>>))
  /\ ev.out.adds = <<"ns1/a">>
  /\ added["ns1/a"] = 2
  /\ queue = <<"ns1/a">>

(***************************************************************************)
(* Properties of the error classifier.                                     *)
(***************************************************************************)
Asked(q) == q \in cls.asked

\* C14: the two categories are disjoint and exact. An error built by
\* RequeueErrorf satisfies IsRequeueError and not IsIgnoreError; one built by
\* IgnoreErrorf satisfies IsIgnoreError and not IsRequeueError; a plain
\* formatted error and the nil error satisfy neither.
C14_CategoriesDisjoint ==
  /\ Asked("requeue") => (cls.requeue = (cls.by = "RequeueErrorf"))
  /\ Asked("ignore") => (cls.ignore = (cls.by = "IgnoreErrorf"))
  /\ (Asked("requeue") /\ Asked("ignore")) => ~(cls.requeue /\ cls.ignore)
  /\ cls.by \in {"none", "Errorf", "ErrorfOf"} => (~cls.requeue /\ ~cls.ignore)

C14_Witness ==
  /\ cls.err = RequeueErrorf(<<"x ", "%d">>, <<IntArg(1)>>)
  /\ ErrorString(cls.err) = "x 1"
  /\ cls.asked = {"requeue", "ignore"}
  /\ cls.requeue /\ ~cls.ignore

====
